---- MODULE Spec2Model ----
(***************************************************************************)
(* Model of research/combine-reports.py: read experiment report lines from *)
(* stdin, skip blank/comment/header lines, parse the others into           *)
(* Experiment records, sort by avg_deviance descending, print a header and *)
(* the records.                                                            *)
(*                                                                         *)
(* Text is modelled as a sequence of chunks.  A chunk is an atomic piece   *)
(* of text: a whitespace character, a comma, a '#', the word avg_deviance, *)
(* or one maximal run of other characters (a numeric literal, a word).     *)
(* No two non-separator chunks are adjacent in any modelled line, so       *)
(* str.strip, str.startswith, str.endswith and str.split act chunk-wise.   *)
(* A float is [nan, n]: nan tells a NaN, n is the value in hundredths.     *)
(***************************************************************************)
EXTENDS Integers, Sequences, FiniteSets, TLC

VARIABLES input, pos, experiments, stdout, pc, err

vars == <<input, pos, experiments, stdout, pc, err>>

\* ---------------------------------------------------------------- bounds
MaxLines == 3
MaxKeyLines == 7

\* ---------------------------------------------------------------- floats
Fin(n) == [nan |-> FALSE, n |-> n]
NaN == [nan |-> TRUE, n |-> 0]

\* float.__lt__ : every comparison with a NaN is False
Lt(a, b) == ~a.nan /\ ~b.nan /\ a.n < b.n

\* float(): the literals of the model and the value each denotes
FloatLiteral ==
  ("0" :> Fin(0)) @@ ("0.0" :> Fin(0)) @@ ("0.06" :> Fin(6)) @@
  ("0.3" :> Fin(30)) @@ ("0.5" :> Fin(50)) @@ ("0.8" :> Fin(80)) @@
  ("1" :> Fin(100)) @@ ("1.0" :> Fin(100)) @@ ("9.7" :> Fin(970)) @@
  ("1e1" :> Fin(1000)) @@ ("10.0" :> Fin(1000)) @@
  ("12.3" :> Fin(1230)) @@ ("30" :> Fin(3000)) @@ ("30.0" :> Fin(3000)) @@
  ("500" :> Fin(50000)) @@ ("500.0" :> Fin(50000)) @@
  ("nan" :> NaN) @@ ("NaN" :> NaN)

\* float.__repr__ of the finite values
ReprFin ==
  (0 :> "0.0") @@ (6 :> "0.06") @@ (30 :> "0.3") @@ (50 :> "0.5") @@
  (80 :> "0.8") @@ (100 :> "1.0") @@ (970 :> "9.7") @@ (1000 :> "10.0") @@
  (1230 :> "12.3") @@ (3000 :> "30.0") @@ (50000 :> "500.0")

Repr(v) == IF v.nan THEN "nan" ELSE ReprFin[v.n]

\* ---------------------------------------------------------------- text
Whitespace == {" ", "\n"}

RECURSIVE LStrip(_)
LStrip(s) ==
  IF s # <<>> /\ Head(s) \in Whitespace THEN LStrip(Tail(s)) ELSE s

RECURSIVE RStrip(_)
RStrip(s) ==
  IF s # <<>> /\ s[Len(s)] \in Whitespace
  THEN RStrip(SubSeq(s, 1, Len(s) - 1)) ELSE s

\* str.strip()
Strip(s) == RStrip(LStrip(s))

\* str.startswith("#")
StartsWithHash(s) == s # <<>> /\ s[1] = "#"

\* str.endswith("avg_deviance")
EndsWithAvgDeviance(s) == s # <<>> /\ s[Len(s)] = "avg_deviance"

\* mutation: the header test is left out of the `continue` condition
SkipLineNoHeader(line) == line = <<>> \/ StartsWithHash(line)

\* the condition of the `continue` on a stripped line
SkipLine(line) ==
  line = <<>> \/ StartsWithHash(line) \/ EndsWithAvgDeviance(line)

\* str.split(",")
RECURSIVE Split(_)
Split(s) ==
  IF \E i \in 1..Len(s) : s[i] = ","
  THEN LET i == CHOOSE c \in 1..Len(s) :
                  s[c] = "," /\ \A d \in 1..(c - 1) : s[d] # ","
       IN <<SubSeq(s, 1, i - 1)>> \o Split(SubSeq(s, i + 1, Len(s)))
  ELSE <<s>>

\* float(text): surrounding whitespace is ignored, the rest must be a literal
ParseFloat(field) ==
  LET t == Strip(field)
  IN IF Len(t) = 1 /\ t[1] \in DOMAIN FloatLiteral
     THEN [ok |-> TRUE, val |-> FloatLiteral[t[1]]]
     ELSE [ok |-> FALSE, val |-> NaN]

\* mutation: surplus fields are dropped instead of raising
UnpackErrorTooFew(fields) == Len(fields) < 7

\* the 7-target tuple unpacking raises ValueError on any other length
UnpackError(fields) == Len(fields) # 7

\* mutation: the first two keyword arguments are exchanged
ExperimentSwapped(f, id) ==
  [min_deviation |-> ParseFloat(f[2]).val,
   max_deviation |-> ParseFloat(f[1]).val,
   default_volatility |-> ParseFloat(f[3]).val,
   tau |-> ParseFloat(f[4]).val,
   first_advantage |-> ParseFloat(f[5]).val,
   rating_periods_per_day |-> ParseFloat(f[6]).val,
   avg_deviance |-> ParseFloat(f[7]).val,
   id |-> id]

\* Experiment(...): id is the identity of the constructed object
Experiment(f, id) ==
  [min_deviation |-> ParseFloat(f[1]).val,
   max_deviation |-> ParseFloat(f[2]).val,
   default_volatility |-> ParseFloat(f[3]).val,
   tau |-> ParseFloat(f[4]).val,
   first_advantage |-> ParseFloat(f[5]).val,
   rating_periods_per_day |-> ParseFloat(f[6]).val,
   avg_deviance |-> ParseFloat(f[7]).val,
   id |-> id]

NoExperiment ==
  [min_deviation |-> NaN, max_deviation |-> NaN, default_volatility |-> NaN,
   tau |-> NaN, first_advantage |-> NaN, rating_periods_per_day |-> NaN,
   avg_deviance |-> NaN, id |-> 0]

\* split, unpack and convert one stripped, non-skipped line
ParseLine(line, id) ==
  LET f == Split(line)
  IN IF UnpackError(f)
     THEN [ok |-> FALSE, err |-> "ValueError", rec |-> NoExperiment]
     ELSE IF \E i \in 1..7 : ~ParseFloat(f[i]).ok
     THEN [ok |-> FALSE, err |-> "ValueError", rec |-> NoExperiment]
     ELSE [ok |-> TRUE, err |-> "none", rec |-> Experiment(f, id)]

\* mutation: a record equal to one already collected is not added
AppendUnique(exps, e) ==
  IF \E i \in 1..Len(exps) : [exps[i] EXCEPT !.id = e.id] = e
  THEN exps ELSE Append(exps, e)

\* experiments.append(...)
AppendExperiment(exps, e) == Append(exps, e)

\* ---------------------------------------------------------------- sort
\* key=lambda e: e.avg_deviance
KeyOf(e) == e.avg_deviance

RECURSIVE Reverse(_)
Reverse(s) == IF s = <<>> THEN <<>> ELSE Reverse(Tail(s)) \o <<Head(s)>>

\* length of the run s[1..n] that starts the list: descending = TRUE extends
\* while each key is < its predecessor, otherwise while none is
RECURSIVE RunLength(_, _, _)
RunLength(s, n, descending) ==
  IF n >= Len(s) THEN n
  ELSE IF Lt(KeyOf(s[n + 1]), KeyOf(s[n])) = descending
       THEN RunLength(s, n + 1, descending)
       ELSE n

\* count_run: the initial run and whether it is strictly descending
CountRun(s) ==
  IF Len(s) < 2 THEN [n |-> Len(s), descending |-> FALSE]
  ELSE LET d == Lt(KeyOf(s[2]), KeyOf(s[1]))
       IN [n |-> RunLength(s, 2, d), descending |-> d]

\* the binary search of binarysort: where pivot goes in s[l+1..r] (0-based l, r)
RECURSIVE BinarySearch(_, _, _, _)
BinarySearch(s, pivot, l, r) ==
  IF l >= r THEN l
  ELSE LET p == l + ((r - l) \div 2)
       IN IF Lt(KeyOf(pivot), KeyOf(s[p + 1]))
          THEN BinarySearch(s, pivot, l, p)
          ELSE BinarySearch(s, pivot, p + 1, r)

\* binarysort: s[1..start-1] is sorted, insert s[start], s[start+1], ...
RECURSIVE BinarySort(_, _)
BinarySort(s, start) ==
  IF start > Len(s) THEN s
  ELSE LET pivot == s[start]
           l == BinarySearch(s, pivot, 0, start - 1)
           t == SubSeq(s, 1, l) \o <<pivot>> \o SubSeq(s, l + 1, start - 1)
                  \o SubSeq(s, start + 1, Len(s))
       IN BinarySort(t, start + 1)

\* mutation: NaN keys are overwritten with 0.0 before sorting
ListSortSanitized(s, reverse) ==
  LET c == [i \in 1..Len(s) |->
              IF s[i].avg_deviance.nan
              THEN [s[i] EXCEPT !.avg_deviance = Fin(0)] ELSE s[i]]
      w == IF reverse THEN Reverse(c) ELSE c
      run == CountRun(w)
      w2 == IF run.descending
            THEN Reverse(SubSeq(w, 1, run.n)) \o SubSeq(w, run.n + 1, Len(w))
            ELSE w
      w3 == IF Len(w) < 2 THEN w ELSE BinarySort(w2, run.n + 1)
  IN IF reverse THEN Reverse(w3) ELSE w3

\* mutation: descending order by an ascending sort followed by a reversal
ListSortThenReverse(s, reverse) ==
  LET run == CountRun(s)
      w2 == IF run.descending
            THEN Reverse(SubSeq(s, 1, run.n)) \o SubSeq(s, run.n + 1, Len(s))
            ELSE s
      w3 == IF Len(s) < 2 THEN s ELSE BinarySort(w2, run.n + 1)
  IN IF reverse THEN Reverse(w3) ELSE w3

\* list.sort(key=..., reverse=...) for a list shorter than 64 elements:
\* reverse, count_run, reverse a descending run, binarysort, reverse
ListSort(s, reverse) ==
  LET w == IF reverse THEN Reverse(s) ELSE s
      run == CountRun(w)
      w2 == IF run.descending
            THEN Reverse(SubSeq(w, 1, run.n)) \o SubSeq(w, run.n + 1, Len(w))
            ELSE w
      w3 == IF Len(w) < 2 THEN w ELSE BinarySort(w2, run.n + 1)
  IN IF reverse THEN Reverse(w3) ELSE w3

\* ---------------------------------------------------------------- output
HeaderText ==
  <<"min_deviation", ",", "max_deviation", ",", "default_volatility", ",",
    "tau", ",", "first_advantage", ",", "rating_periods_per_day", ",",
    "avg_deviance">>

\* the f-string of the print loop
FormatRecord(ex) ==
  <<Repr(ex.min_deviation), ",", Repr(ex.max_deviation), ",",
    Repr(ex.default_volatility), ",", Repr(ex.tau), ",",
    Repr(ex.first_advantage), ",", Repr(ex.rating_periods_per_day), ",",
    Repr(ex.avg_deviance)>>

\* print(text): the text and a newline
PrintLine(text) == text \o <<"\n">>

\* ---------------------------------------------------------------- program
\* the whole script as a function of the lines of stdin: the read loop ...
RECURSIVE ReadAll(_, _, _)
ReadAll(lines, i, exps) ==
  IF i > Len(lines) THEN [ok |-> TRUE, exps |-> exps]
  ELSE LET line == Strip(lines[i])
       IN IF SkipLine(line) THEN ReadAll(lines, i + 1, exps)
          ELSE LET p == ParseLine(line, i)
               IN IF p.ok
                  THEN ReadAll(lines, i + 1, AppendExperiment(exps, p.rec))
                  ELSE [ok |-> FALSE, exps |-> exps]

\* ... then the sort and the prints; nothing is printed when a line raises
RunProgram(lines) ==
  LET r == ReadAll(lines, 1, <<>>)
      sorted == ListSort(r.exps, TRUE)
  IN IF ~r.ok THEN [ok |-> FALSE, out |-> <<>>]
     ELSE [ok |-> TRUE,
           out |-> <<PrintLine(HeaderText)>> \o
                   [k \in 1..Len(sorted) |-> PrintLine(FormatRecord(sorted[k]))]]

\* ---------------------------------------------------------------- inputs
DataLine(tau, dev) ==
  <<"30", ",", "500", ",", "0.06", ",", tau, ",", "0", ",", "1", ",", dev, "\n">>

Lines ==
  { <<"\n">>,
    <<" ", "#", "abc", ",", "1", "\n">>,
    PrintLine(HeaderText),
    <<"abc", ",", "avg_deviance", " ", "\n">>,
    DataLine("0.5", "12.3"),
    DataLine("0.8", "9.7"),
    DataLine("0.3", "9.7"),
    <<" ", "30", ",", " ", "500", " ", ",", "0.06", ",", "1e1", ",", "0", ",",
      "1", ",", "1", "\n">>,
    <<"30", ",", "500", ",", "0.06", "\n">>,
    <<"30", ",", "500", ",", "0.06", ",", "0.5", ",", "0", ",", "1", ",",
      "12.3", ",", "1", "\n">>,
    <<"30", ",", "abc", ",", "0.06", ",", "0.5", ",", "0", ",", "1", ",",
      "12.3", "\n">>,
    <<"30", ",", "500", ",", ",", "0.5", ",", "0", ",", "1", ",", "12.3",
      "\n">> }

KeyLines == { DataLine("0.5", "0"), DataLine("0.5", "1"), DataLine("0.5", "nan") }

Inputs ==
  UNION { [1..n -> Lines] : n \in 0..MaxLines }
  \cup UNION { [1..n -> KeyLines] : n \in 0..MaxKeyLines }

\* ---------------------------------------------------------------- machine
Init ==
  /\ input \in Inputs
  /\ pos = 0
  /\ experiments = <<>>
  /\ stdout = <<>>
  /\ pc = "read"
  /\ err = "none"

\* one iteration of `for line in sys.stdin` that hits the `continue`
ReadSkip ==
  /\ pc = "read"
  /\ pos < Len(input)
  /\ SkipLine(Strip(input[pos + 1]))
  /\ pos' = pos + 1
  /\ UNCHANGED <<input, experiments, stdout, pc, err>>

\* mutation: the record is printed as soon as it is parsed
ReadAppendStreaming ==
  /\ pc = "read"
  /\ pos < Len(input)
  /\ LET line == Strip(input[pos + 1])
         p == ParseLine(line, pos + 1)
     IN /\ ~SkipLine(line)
        /\ p.ok
        /\ experiments' = AppendExperiment(experiments, p.rec)
        /\ stdout' = Append(stdout, PrintLine(FormatRecord(p.rec)))
  /\ pos' = pos + 1
  /\ UNCHANGED <<input, pc, err>>

\* one iteration that parses the line and appends the record
ReadAppend ==
  /\ pc = "read"
  /\ pos < Len(input)
  /\ LET line == Strip(input[pos + 1])
         p == ParseLine(line, pos + 1)
     IN /\ ~SkipLine(line)
        /\ p.ok
        /\ experiments' = AppendExperiment(experiments, p.rec)
  /\ pos' = pos + 1
  /\ UNCHANGED <<input, stdout, pc, err>>

\* one iteration in which the unpacking or a float() raises: the uncaught
\* exception ends the run
ReadFail ==
  /\ pc = "read"
  /\ pos < Len(input)
  /\ LET line == Strip(input[pos + 1])
         p == ParseLine(line, pos + 1)
     IN /\ ~SkipLine(line)
        /\ ~p.ok
        /\ err' = p.err
  /\ pos' = pos + 1
  /\ pc' = "error"
  /\ UNCHANGED <<input, experiments, stdout>>

\* experiments.sort(key=lambda e: e.avg_deviance, reverse=True)
Sort ==
  /\ pc = "read"
  /\ pos = Len(input)
  /\ experiments' = ListSort(experiments, TRUE)
  /\ pc' = "header"
  /\ UNCHANGED <<input, pos, stdout, err>>

\* mutation: the header is printed before the read loop
PrintHeaderFirst ==
  /\ pc = "read"
  /\ pos = 0
  /\ stdout = <<>>
  /\ stdout' = Append(stdout, PrintLine(HeaderText))
  /\ UNCHANGED <<input, pos, experiments, pc, err>>

\* print("min_deviation,...,avg_deviance")
PrintHeader ==
  /\ pc = "header"
  /\ stdout' = Append(stdout, PrintLine(HeaderText))
  /\ pc' = "print"
  /\ UNCHANGED <<input, pos, experiments, err>>

\* one iteration of `for ex in experiments: print(...)`; a record is printed
\* when the lines after the header are fewer than the records
PrintRecord ==
  /\ pc = "print"
  /\ Len(stdout) - 1 < Len(experiments)
  /\ stdout' = Append(stdout, PrintLine(FormatRecord(experiments[Len(stdout)])))
  /\ UNCHANGED <<input, pos, experiments, pc, err>>

\* the print loop is exhausted and the script ends
Exit ==
  /\ pc = "print"
  /\ Len(stdout) - 1 = Len(experiments)
  /\ pc' = "done"
  /\ UNCHANGED <<input, pos, experiments, stdout, err>>

Next ==
  \/ ReadSkip
  \/ ReadAppend
  \/ ReadFail
  \/ Sort
  \/ PrintHeader
  \/ PrintRecord
  \/ Exit

Spec == Init /\ [][Next]_vars

\* ---------------------------------------------------------------- claims
\* vocabulary of the properties, stated on the raw text of stdin and stdout

\* the raw line is blank, a comment or a header once stripped
IsSkippable(raw) ==
  LET t == Strip(raw)
  IN t = <<>> \/ t[1] = "#" \/ t[Len(t)] = "avg_deviance"

\* the input lines the read loop has to parse
AcceptedIdx == { j \in 1..Len(input) : ~IsSkippable(input[j]) }

FieldsOf(raw) == Split(Strip(raw))

\* the line has 7 fields and each one is a float literal
WellFormed(raw) ==
  /\ Len(FieldsOf(raw)) = 7
  /\ \A i \in 1..7 : ParseFloat(FieldsOf(raw)[i]).ok

\* the text a well-formed input line is printed as
ExpectedLine(raw) ==
  LET f == FieldsOf(raw)
      t(i) == Repr(ParseFloat(f[i]).val)
  IN <<t(1), ",", t(2), ",", t(3), ",", t(4), ",", t(5), ",", t(6), ",", t(7),
       "\n">>

\* the 7th field of an output line, as a float
OutKey(raw) == ParseFloat(FieldsOf(raw)[7]).val

\* float.__ge__ and float.__eq__
Ge(a, b) == ~a.nan /\ ~b.nan /\ a.n >= b.n
FloatEq(a, b) == ~a.nan /\ ~b.nan /\ a.n = b.n

FieldNames ==
  <<"min_deviation", "max_deviation", "default_volatility", "tau",
    "first_advantage", "rating_periods_per_day", "avg_deviance">>

\* C1: on a run that parsed every line, adjacent output records (a, b) have
\* a.avg_deviance >= b.avg_deviance
C1_SortedDescending ==
  pc = "done" =>
    \A k \in 2..(Len(stdout) - 1) : Ge(OutKey(stdout[k]), OutKey(stdout[k + 1]))

\* C2: two accepted records with equal avg_deviance are printed in their
\* input order
C2_Stable ==
  pc = "done" =>
    /\ \A k \in 1..Len(experiments) :
         stdout[k + 1] = PrintLine(FormatRecord(experiments[k]))
    /\ \A a, b \in 1..Len(experiments) :
         (a < b /\ FloatEq(KeyOf(experiments[a]), KeyOf(experiments[b])))
           => experiments[a].id < experiments[b].id

\* C3: a successful run prints the header once, then one line per accepted
\* input line, and the data lines are the accepted records as a multiset
C3_HeaderThenPermutation ==
  pc = "done" =>
    /\ stdout[1] = PrintLine(HeaderText)
    /\ Cardinality({ k \in 1..Len(stdout) : stdout[k] = PrintLine(HeaderText) }) = 1
    /\ Len(stdout) = 1 + Cardinality(AcceptedIdx)
    /\ \A k \in 2..Len(stdout) :
         Cardinality({ m \in 2..Len(stdout) : stdout[m] = stdout[k] })
           = Cardinality({ j \in AcceptedIdx : ExpectedLine(input[j]) = stdout[k] })

C3_Witness ==
  /\ pc = "done"
  /\ \E j \in 1..Len(input) : input[j] = PrintLine(HeaderText)
  /\ \E a, b \in 2..Len(stdout) : a < b /\ stdout[a] = stdout[b]

\* C4: reading a blank, comment or header line only advances the input: no
\* record, no output, no error, whatever else the line holds
C4_SkippedLinesIgnored ==
  [][(pc = "read" /\ pos < Len(input) /\ IsSkippable(input[pos + 1]))
       => /\ pos' = pos + 1
          /\ pc' = "read"
          /\ err' = "none"
          /\ experiments' = experiments
          /\ stdout' = stdout]_vars

C4_Witness ==
  /\ pc = "read"
  /\ pos >= 2
  /\ input[pos] = <<"abc", ",", "avg_deviance", " ", "\n">>
  /\ Len(experiments) >= 1

\* C5: a run that hits a malformed line ends in the error state with an empty
\* output, wherever the line is
C5_NoOutputOnError ==
  /\ pc = "error" => stdout = <<>>
  /\ (\E j \in 1..pos : ~IsSkippable(input[j]) /\ ~WellFormed(input[j]))
       => pc = "error" /\ stdout = <<>>

C5_Witness ==
  /\ pc = "error"
  /\ pos >= 2
  /\ Len(experiments) >= 1

\* C6: a non-skipped line is rejected, with the one error kind, exactly when it
\* has not 7 fields or one of them is not a float; otherwise it is accepted
C6_RejectedIffMalformed ==
  [][(pc = "read" /\ pos < Len(input) /\ ~IsSkippable(input[pos + 1]))
       => LET f == FieldsOf(input[pos + 1])
              malformed == Len(f) # 7 \/ \E i \in 1..7 : ~ParseFloat(f[i]).ok
          IN /\ malformed =>
                  pc' = "error" /\ err' = "ValueError" /\ experiments' = experiments
             /\ ~malformed =>
                  /\ pc' = "read"
                  /\ err' = "none"
                  /\ Len(experiments') = Len(experiments) + 1]_vars

C6_Witness ==
  /\ pc = "error"
  /\ err = "ValueError"
  /\ Len(FieldsOf(input[pos])) > 7

\* C7: every output data line has 7 fields, column i is the field the header
\* names in column i, and it is the value parsed from column i of one
\* accepted input line
C7_FieldsInPlace ==
  \A k \in 2..Len(stdout) :
    LET o == FieldsOf(stdout[k])
    IN /\ Len(o) = 7
       /\ \A i \in 1..7 :
            /\ Split(HeaderText)[i] = <<FieldNames[i]>>
            /\ o[i] = <<Repr(experiments[k - 1][FieldNames[i]])>>
       /\ \E j \in AcceptedIdx :
            /\ Len(FieldsOf(input[j])) = 7
            /\ \A i \in 1..7 :
                 o[i] = <<Repr(ParseFloat(FieldsOf(input[j])[i]).val)>>

C7_Witness ==
  /\ Len(stdout) >= 2
  /\ stdout[2] = <<"30.0", ",", "500.0", ",", "0.06", ",", "10.0", ",", "0.0",
                   ",", "1.0", ",", "1.0", "\n">>

\* C8: nothing is printed before the whole input is read and the collection
\* sorted, and once output has started no line is read and the collection
\* does not change
C8_PhasesInOrder ==
  [][/\ stdout' # <<>> =>
          /\ pos' = Len(input)
          /\ pc' \in {"print", "done"}
          /\ experiments' = ListSort(ReadAll(input, 1, <<>>).exps, TRUE)
     /\ stdout # <<>> =>
          /\ pos' = pos
          /\ experiments' = experiments
          /\ pc' \in {"print", "done"}]_vars

C8_Witness ==
  /\ pc = "print"
  /\ Len(stdout) >= 2
  /\ Len(experiments) >= 2
  /\ experiments[1].id > experiments[2].id

\* C9: no step changes a field of a record of the collection: a step leaves
\* the collection alone, appends one record to it, or permutes it
C9_RecordsImmutable ==
  [][/\ \A i \in 1..Len(experiments) :
          \E j \in 1..Len(experiments') : experiments'[j] = experiments[i]
     /\ \/ Len(experiments') = Len(experiments)
        \/ /\ Len(experiments') = Len(experiments) + 1
           /\ SubSeq(experiments', 1, Len(experiments)) = experiments]_vars

C9_Witness ==
  /\ pc = "print"
  /\ Len(experiments) >= 2
  /\ experiments[1].id > experiments[2].id
  /\ \E i \in 1..Len(experiments) : experiments[i].avg_deviance.nan

\* C10: the output of a successful run, given as input, is accepted and
\* printed unchanged
C10_Idempotent ==
  pc = "done" => RunProgram(stdout) = [ok |-> TRUE, out |-> stdout]

C10_Witness ==
  /\ pc = "done"
  /\ \E k \in 2..(Len(stdout) - 1) :
       /\ FloatEq(OutKey(stdout[k]), OutKey(stdout[k + 1]))
       /\ stdout[k] # stdout[k + 1]
  /\ \E j \in AcceptedIdx : ExpectedLine(input[j]) # input[j]

====
